---- MODULE Spec2Model ----
(***************************************************************************)
(* kubernetes-console (main.go): export Deployments and their HPAs to the  *)
(* pipe-delimited file deployment-info.csv, patch the cluster from that    *)
(* file through kubectl, or restart all Deployments.                       *)
(*                                                                         *)
(* A Go string is modelled as a sequence of one-character strings, so that *)
(* formatting, parsing, trimming and case folding are computed character   *)
(* by character as the code computes them.                                 *)
(***************************************************************************)
EXTENDS Integers, Sequences, FiniteSets, TLC

\* ------------------------------------------------------------------ bounds
\* Longest file (data rows) a patch run is given.
MaxRows == 2
\* Longest HPA list a collection is given.
MaxHPAs == 2
\* Longest record list the codec is given.
MaxRecords == 2

\* ----------------------------------------------------------------- strings
LowerAlpha ==
  <<"a","b","c","d","e","f","g","h","i","j","k","l","m",
    "n","o","p","q","r","s","t","u","v","w","x","y","z">>

UpperAlpha ==
  <<"A","B","C","D","E","F","G","H","I","J","K","L","M",
    "N","O","P","Q","R","S","T","U","V","W","X","Y","Z">>

Digits == <<"0","1","2","3","4","5","6","7","8","9">>

\* Position of the first element of s equal to c, 0 when there is none
\* (strings.Index / bytes.IndexByte, shifted to 1-based; -1 becomes 0).
IndexOf(s, c) ==
  IF \E i \in 1..Len(s) : s[i] = c
    THEN CHOOSE i \in 1..Len(s) : s[i] = c /\ \A j \in 1..(i-1) : s[j] # c
    ELSE 0

UpperChar(c) ==
  LET i == IndexOf(LowerAlpha, c) IN IF i > 0 THEN UpperAlpha[i] ELSE c

LowerChar(c) ==
  LET i == IndexOf(UpperAlpha, c) IN IF i > 0 THEN LowerAlpha[i] ELSE c

ToUpper(s) == [i \in 1..Len(s) |-> UpperChar(s[i])]

ToLower(s) == [i \in 1..Len(s) |-> LowerChar(s[i])]

IsSpace(c) == c \in {" ", "\t", "\n", "\r", "\f"}

\* strings.TrimSpace: drop the leading and the trailing white space.
TrimSpace(s) ==
  LET keep == {i \in 1..Len(s) : ~IsSpace(s[i])}
  IN IF keep = {} THEN <<>>
     ELSE LET lo == CHOOSE i \in keep : \A j \in keep : i <= j
              hi == CHOOSE i \in keep : \A j \in keep : i >= j
          IN SubSeq(s, lo, hi)

RECURSIVE ItoaNat(_)
ItoaNat(n) ==
  IF n < 10 THEN <<Digits[n + 1]>>
  ELSE ItoaNat(n \div 10) \o <<Digits[(n % 10) + 1]>>

\* strconv.Itoa
Itoa(n) == IF n < 0 THEN <<"-">> \o ItoaNat(0 - n) ELSE ItoaNat(n)

RECURSIVE DigitsValue(_, _)
DigitsValue(s, acc) ==
  IF Len(s) = 0 THEN acc
  ELSE DigitsValue(Tail(s), acc * 10 + (IndexOf(Digits, s[1]) - 1))

\* strconv.Atoi with its error dropped, as every caller in the patch flow
\* does (`v, _ := strconv.Atoi(...)`): a string that is no decimal integer
\* yields 0.
Atoi(s) ==
  LET signed == Len(s) > 0 /\ s[1] \in {"+", "-"}
      body   == IF signed THEN Tail(s) ELSE s
      ok     == Len(body) > 0 /\ \A i \in 1..Len(body) : IndexOf(Digits, body[i]) > 0
  IN IF ~ok THEN 0
     ELSE IF signed /\ s[1] = "-" THEN 0 - DigitsValue(body, 0)
     ELSE DigitsValue(body, 0)

\* ------------------------------------------------- encoding/csv, Comma '|'
Comma == "|"

Quote == "\""

NL == "\n"

RECURSIVE Concat(_)
Concat(ss) == IF Len(ss) = 0 THEN <<>> ELSE ss[1] \o Concat(Tail(ss))

\* csv.Writer.fieldNeedsQuotes
fieldNeedsQuotes(field) ==
  IF Len(field) = 0 THEN FALSE
  ELSE IF field = <<"\\", ".">> THEN TRUE
  ELSE IF \E i \in 1..Len(field) : field[i] \in {NL, "\r", Quote, Comma} THEN TRUE
  ELSE IsSpace(field[1])

\* The quoted form of a field: the writer doubles every quote and copies the
\* rest (UseCRLF is false, so CR and LF are copied as they are).
QuoteField(field) ==
  <<Quote>>
    \o Concat([i \in 1..Len(field) |->
                 IF field[i] = Quote THEN <<Quote, Quote>> ELSE <<field[i]>>])
    \o <<Quote>>

WriteField(field) == IF fieldNeedsQuotes(field) THEN QuoteField(field) ELSE field

\* csv.Writer.Write: the fields joined by Comma, then a newline.
WriteRecord(record) ==
  Concat([n \in 1..Len(record) |->
            (IF n > 1 THEN <<Comma>> ELSE <<>>) \o WriteField(record[n])])
    \o <<NL>>

lengthNL(line) == IF Len(line) > 0 /\ line[Len(line)] = NL THEN 1 ELSE 0

DropFirst(s, n) == SubSeq(s, n + 1, Len(s))

\* csv.Reader.readLine from offset off (characters consumed so far): the next
\* line with its newline, "\r\n" folded to "\n", a trailing "\r" before the
\* end of the file dropped; eof when nothing is left.
readLine(content, off) ==
  LET rest == DropFirst(content, off)
      i    == IndexOf(rest, NL)
  IN IF Len(rest) = 0 THEN [line |-> <<>>, eof |-> TRUE, off |-> off]
     ELSE IF i = 0
       THEN [line |-> IF rest[Len(rest)] = "\r"
                        THEN SubSeq(rest, 1, Len(rest) - 1) ELSE rest,
             eof  |-> FALSE,
             off  |-> Len(content)]
     ELSE [line |-> IF i >= 2 /\ rest[i - 1] = "\r"
                      THEN SubSeq(rest, 1, i - 2) \o <<NL>>
                      ELSE SubSeq(rest, 1, i),
           eof  |-> FALSE,
           off  |-> off + i]

\* The line the next record starts on: empty lines are skipped.
RECURSIVE nextLine(_, _)
nextLine(content, off) ==
  LET l == readLine(content, off)
  IN IF ~l.eof /\ Len(l.line) = lengthNL(l.line) THEN nextLine(content, l.off)
     ELSE l

\* csv.Reader.readRecord's parseField loop (LazyQuotes and TrimLeadingSpace
\* are off): dst is the list of fields parsed so far.
RECURSIVE parseField(_, _, _, _)
RECURSIVE parseQuoted(_, _, _, _, _)
parseField(content, off, line, dst) ==
  IF Len(line) = 0 \/ line[1] # Quote
    THEN LET i     == IndexOf(line, Comma)
             field == IF i > 0 THEN SubSeq(line, 1, i - 1)
                      ELSE SubSeq(line, 1, Len(line) - lengthNL(line))
         IN IF IndexOf(field, Quote) > 0
              THEN [rec |-> dst, err |-> "ErrBareQuote", off |-> off]
            ELSE IF i > 0
              THEN parseField(content, off, DropFirst(line, i), Append(dst, field))
            ELSE [rec |-> Append(dst, field), err |-> "", off |-> off]
    ELSE parseQuoted(content, off, Tail(line), <<>>, dst)

parseQuoted(content, off, line, cur, dst) ==
  LET i == IndexOf(line, Quote)
  IN IF i > 0
       THEN LET got  == cur \o SubSeq(line, 1, i - 1)
                rest == DropFirst(line, i)
            IN IF Len(rest) > 0 /\ rest[1] = Quote
                 THEN parseQuoted(content, off, Tail(rest), Append(got, Quote), dst)
               ELSE IF Len(rest) > 0 /\ rest[1] = Comma
                 THEN parseField(content, off, Tail(rest), Append(dst, got))
               ELSE IF lengthNL(rest) = Len(rest)
                 THEN [rec |-> Append(dst, got), err |-> "", off |-> off]
               ELSE [rec |-> dst, err |-> "ErrQuote", off |-> off]
     ELSE IF Len(line) > 0
       THEN LET l == readLine(content, off)
            IN parseQuoted(content, l.off, l.line, cur \o line, dst)
     ELSE [rec |-> dst, err |-> "ErrQuote", off |-> off]

\* csv.Reader.Read with the reader's FieldsPerRecord fpr (0 before the first
\* record, which sets it): the record, the error ("" for none) and the
\* reader's state afterwards.
csvRead(content, off, fpr) ==
  LET l == nextLine(content, off)
  IN IF l.eof THEN [rec |-> <<>>, err |-> "EOF", off |-> l.off, fpr |-> fpr]
     ELSE LET r == parseField(content, l.off, l.line, <<>>)
          IN [rec |-> r.rec,
              err |-> IF r.err = "" /\ fpr > 0 /\ Len(r.rec) # fpr
                        THEN "ErrFieldCount" ELSE r.err,
              off |-> r.off,
              fpr |-> IF fpr = 0 THEN Len(r.rec) ELSE fpr]

\* ------------------------------------------------------------ data model
\* A Go pointer or optional field: <<>> for nil, <<v>> for a value v.
None == <<>>

Some(v) == <<v>>

\* Bytes in a mebibyte: the divisor 1024 * 1024 of the memory conversion.
MiB == 1048576

\* A running total of the loop over a pod template's containers.
RECURSIVE SumSeq(_)
SumSeq(s) == IF Len(s) = 0 THEN 0 ELSE s[1] + SumSeq(Tail(s))

\* intstr.IntOrString.String()
IntOrStringString(v) == IF v.type = "Int" THEN Itoa(v.intVal) ELSE v.strVal

\* The match loop without its break: the last matching HPA stands.
MatchHPALast(deployName, hpas) ==
  LET hit(i) == /\ hpas[i].targetName = deployName
                /\ hpas[i].targetKind = "Deployment"
  IN IF \E i \in 1..Len(hpas) : hit(i)
       THEN CHOOSE i \in 1..Len(hpas) : hit(i) /\ \A j \in (i+1)..Len(hpas) : ~hit(j)
       ELSE 0

\* Index of the HPA the match loop stops at: the first whose scaleTargetRef
\* names the Deployment with kind "Deployment"; 0 when the loop ends without
\* a match.
MatchHPA(deployName, hpas) ==
  LET hit(i) == /\ hpas[i].targetName = deployName
                /\ hpas[i].targetKind = "Deployment"
  IN IF \E i \in 1..Len(hpas) : hit(i)
       THEN CHOOSE i \in 1..Len(hpas) : hit(i) /\ \A j \in 1..(i-1) : ~hit(j)
       ELSE 0

\* The metrics loop: every Resource metric on cpu with an averageUtilization
\* overwrites the field, so the last one stands; 0 when there is none.
CPUTarget(metrics) ==
  LET hit(i) == /\ metrics[i].type = "Resource"
                /\ metrics[i].resource # None
                /\ metrics[i].resource[1].name = "cpu"
                /\ metrics[i].resource[1].averageUtilization # None
      hits   == {i \in 1..Len(metrics) : hit(i)}
  IN IF hits = {} THEN 0
     ELSE LET last == CHOOSE i \in hits : \A j \in hits : j <= i
          IN metrics[last].resource[1].averageUtilization[1]

\* One iteration of getDeploymentInfo's loop over the Deployments: the
\* DeploymentInfo of deploy given the HPA list.
DeploymentInfo(deploy, hpas) ==
  LET cs  == deploy.containers
      ru  == deploy.rollingUpdate
      isRU == deploy.strategyType = "RollingUpdate" /\ ru # None
      h   == MatchHPA(deploy.name, hpas)
      hpa == hpas[h]
  IN [Name          |-> deploy.name,
      Namespace     |-> deploy.namespace,
      Replicas      |-> deploy.replicas,
      CPURequest    |-> Itoa(SumSeq([j \in 1..Len(cs) |-> cs[j].cpuRequest])) \o <<"m">>,
      CPULimit      |-> Itoa(SumSeq([j \in 1..Len(cs) |-> cs[j].cpuLimit])) \o <<"m">>,
      MemoryRequest |-> Itoa(SumSeq([j \in 1..Len(cs) |-> cs[j].memRequest \div MiB])) \o <<"M","i">>,
      MemoryLimit   |-> Itoa(SumSeq([j \in 1..Len(cs) |-> cs[j].memLimit \div MiB])) \o <<"M","i">>,
      MaxUnavailable |->
        IF isRU /\ ru[1].maxUnavailable # None
          THEN IntOrStringString(ru[1].maxUnavailable[1]) ELSE <<>>,
      MaxSurge |->
        IF isRU /\ ru[1].maxSurge # None
          THEN IntOrStringString(ru[1].maxSurge[1]) ELSE <<>>,
      MinReplicas |->
        IF h = 0 THEN 0
        ELSE IF hpa.minReplicas # None THEN hpa.minReplicas[1] ELSE 1,
      MaxReplicas |-> IF h = 0 THEN 0 ELSE hpa.maxReplicas,
      CPUTargetUtilization |-> IF h = 0 THEN 0 ELSE CPUTarget(hpa.metrics),
      ScaleUpStabilization |->
        IF h # 0 /\ hpa.behavior # None /\ hpa.behavior[1].scaleUp # None
          THEN hpa.behavior[1].scaleUp[1].stabilizationWindowSeconds ELSE None,
      ScaleDownStabilization |->
        IF h # 0 /\ hpa.behavior # None /\ hpa.behavior[1].scaleDown # None
          THEN hpa.behavior[1].scaleDown[1].stabilizationWindowSeconds ELSE None,
      UpdateResourceAndHPA |-> <<>>,
      UpdateHPAOnly        |-> <<>>]

\* getDeploymentInfo once both lists succeeded: one record per Deployment, in
\* list order.
getDeploymentInfo(deployments, hpas) ==
  [i \in 1..Len(deployments) |-> DeploymentInfo(deployments[i], hpas)]

\* ------------------------------------------------------------- the codec
HeaderFields ==
  << <<"N","o">>, <<"D","e","p","l","o","y","m","e","n","t"," ","N","a","m","e">>, <<"N","a","m","e","s","p","a","c","e">>, <<"R","e","p","l","i","c","a","s">>,
     <<"C","P","U"," ","R","e","q","u","e","s","t">>, <<"C","P","U"," ","L","i","m","i","t">>, <<"M","e","m","o","r","y"," ","R","e","q","u","e","s","t">>, <<"M","e","m","o","r","y"," ","L","i","m","i","t">>,
     <<"M","a","x","U","n","a","v","a","i","l","a","b","l","e">>, <<"M","a","x","S","u","r","g","e">>, <<"M","i","n"," ","R","e","p","l","i","c","a","s">>, <<"M","a","x"," ","R","e","p","l","i","c","a","s">>,
     <<"C","P","U"," ","T","a","r","g","e","t"," ","U","t","i","l","i","z","a","t","i","o","n">>, <<"S","c","a","l","e","U","p"," ","S","t","a","b","i","l","i","z","a","t","i","o","n">>,
     <<"S","c","a","l","e","D","o","w","n"," ","S","t","a","b","i","l","i","z","a","t","i","o","n">>, <<"U","p","d","a","t","e","R","e","s","o","u","r","c","e","A","n","d","H","P","A">>, <<"U","p","d","a","t","e","H","P","A","O","n","l","y">> >>

NA == <<"N","/","A">>

StrFalse == <<"f","a","l","s","e">>

StrTrue == <<"t","r","u","e">>

\* The closures without their "N/A" default: an absent window left empty.
StabilizationFieldEmpty(w) == IF w # None THEN Itoa(w[1]) ELSE <<>>

\* The rendering of a stabilization window in writeCSV's two closures.
StabilizationField(w) == IF w # None THEN Itoa(w[1]) ELSE NA

\* The record writeCSV builds for data[i] (i counted from 0 in the code,
\* from 1 here, so the row number is i).
CSVRecord(i, deploy) ==
  << Itoa(i),
     deploy.Name,
     deploy.Namespace,
     Itoa(deploy.Replicas),
     deploy.CPURequest,
     deploy.CPULimit,
     deploy.MemoryRequest,
     deploy.MemoryLimit,
     deploy.MaxUnavailable,
     deploy.MaxSurge,
     Itoa(deploy.MinReplicas),
     Itoa(deploy.MaxReplicas),
     Itoa(deploy.CPUTargetUtilization),
     StabilizationField(deploy.ScaleUpStabilization),
     StabilizationField(deploy.ScaleDownStabilization),
     StrFalse,
     StrFalse >>

\* The read path of patchKubeResourcesFromCSV run to the end of the file with
\* nothing else in between: the header is read and dropped, then every record
\* up to EOF or the first error.
RECURSIVE ReadRows(_, _, _, _)
ReadRows(content, off, fpr, rows) ==
  LET r == csvRead(content, off, fpr)
  IN IF r.err = "EOF" THEN [rows |-> rows, err |-> ""]
     ELSE IF r.err # "" THEN [rows |-> rows, err |-> r.err]
     ELSE ReadRows(content, r.off, r.fpr, Append(rows, r.rec))

ReadBack(content) ==
  LET h == csvRead(content, 0, 0)
  IN IF h.err # "" THEN [rows |-> <<>>, err |-> h.err]
     ELSE ReadRows(content, h.off, h.fpr, <<>>)

\* -------------------------------------------------------------- inputs
\* Cluster objects the listings return.
Container(cpuReq, cpuLim, memReq, memLim) ==
  [cpuRequest |-> cpuReq, cpuLimit |-> cpuLim, memRequest |-> memReq, memLimit |-> memLim]

DeployApi ==
  [name |-> <<"a","p","i">>, namespace |-> <<"n","s">>, replicas |-> 3,
   containers |-> <<Container(200, 500, 256 * MiB, 512 * MiB)>>,
   strategyType |-> "RollingUpdate", rollingUpdate |-> None]

DeployWeb ==
  [name |-> <<"w","e","b">>, namespace |-> <<"n","s">>, replicas |-> 12,
   containers |-> <<Container(100, 0, 100 * MiB, 0),
                    Container(150, 250, 150 * MiB + 524288, 300 * MiB)>>,
   strategyType |-> "RollingUpdate",
   rollingUpdate |-> Some([maxUnavailable |-> Some([type |-> "String", strVal |-> <<"2","5","%">>]),
                           maxSurge |-> Some([type |-> "Int", intVal |-> 1])])]

DeployJob ==
  [name |-> <<"j","o","b">>, namespace |-> <<"n","s">>, replicas |-> 0,
   containers |-> <<>>,
   strategyType |-> "Recreate", rollingUpdate |-> None]

CpuMetric(u) ==
  [type |-> "Resource", resource |-> Some([name |-> "cpu", averageUtilization |-> u])]

MemMetric(u) ==
  [type |-> "Resource", resource |-> Some([name |-> "memory", averageUtilization |-> u])]

HPA(target, kind, min, max, metrics, behavior) ==
  [targetName |-> target, targetKind |-> kind, minReplicas |-> min,
   maxReplicas |-> max, metrics |-> metrics, behavior |-> behavior]

Window(w) == Some([stabilizationWindowSeconds |-> w])

\* min=2, max=10, cpu 70%, no behavior block
HpaApi == HPA(<<"a","p","i">>, "Deployment", Some(2), 10, <<CpuMetric(Some(70))>>, None)

\* minReplicas null, both stabilization windows set
HpaApiWindows ==
  HPA(<<"a","p","i">>, "Deployment", None, 5, <<MemMetric(Some(80)), CpuMetric(Some(50))>>,
      Some([scaleUp |-> Window(Some(0)), scaleDown |-> Window(Some(300))]))

\* a behavior block with only scaleDown, its window left null; no cpu metric
HpaWeb ==
  HPA(<<"w","e","b">>, "Deployment", Some(4), 8, <<MemMetric(Some(60))>>,
      Some([scaleUp |-> None, scaleDown |-> Window(None)]))

\* same target name, another kind: never matches
HpaApiStatefulSet ==
  HPA(<<"a","p","i">>, "StatefulSet", Some(7), 9, <<CpuMetric(Some(90))>>, None)

Cluster(ds, hs) == [deployments |-> ds, hpas |-> hs]

Clusters ==
  { Cluster(<<DeployApi, DeployWeb>>, <<HpaApi>>),
    Cluster(<<DeployApi>>, <<HpaApiStatefulSet, HpaApiWindows>>),
    Cluster(<<>>, <<>>) }

\* What an operator may type into the two flag columns of an exported row.
FlagEdits ==
  { <<StrFalse, StrFalse>>, <<StrTrue, StrFalse>>, <<StrFalse, StrTrue>>,
    <<<<"T","R","U","E">>, <<"T","r","u","e">>>> }

\* The file an export of cluster c leaves, with the flag columns of row i
\* edited to flags[i] and nothing else touched.
FlagEdited(c, flags) ==
  LET data == getDeploymentInfo(c.deployments, c.hpas)
      row(i) == [CSVRecord(i, data[i]) EXCEPT ![16] = flags[i][1], ![17] = flags[i][2]]
  IN WriteRecord(HeaderFields) \o Concat([i \in 1..Len(data) |-> WriteRecord(row(i))])

ExportedFiles(c) ==
  {FlagEdited(c, flags) : flags \in [1..Len(c.deployments) -> FlagEdits]}

\* Files that are no flag-only edit of an export: other header widths, short
\* rows, a bare quote, a quoted field, a quote that is never closed, a blank
\* line; and the empty file.
HandHeaders ==
  { WriteRecord(HeaderFields),
    WriteRecord(SubSeq(HeaderFields, 1, 16)),
    WriteRecord(SubSeq(HeaderFields, 1, 11)) }

HandLines ==
  { <<"1","|","a","|","n","|","1","|","1","m","|","2","m","|","1","M","i","|","2","M","i","|","1","|","1","|","1","|","2","|","5","0","|","N","/","A","|","5","|","t","r","u","e","|","t","r","u","e","\n">>,
    <<"2","|","\"","b","|","c","\"","|","n","|","1","|","1","m","|","2","m","|","1","M","i","|","2","M","i","|","|","|","1","|","x","|","5","0","|","7","|","N","/","A","|","n","o","|"," ","T","r","u","e","\r","\n">>,
    <<"3","|","d","|","n","|","1","|","1","m","|","2","m","|","1","M","i","|","2","M","i","|","|","|","1","|","2","|","5","0","|","N","/","A","|","N","/","A","|","t","r","u","e","\n">>,
    <<"4","|","e","|","n","|","1","|","1","m","|","2","m","|","1","M","i","|","2","M","i","|","|","|","1","|","2","|","5","0","|","N","/","A","|","N","/","A","|","f","a","l","s","e","\n">>,
    <<"5","|","f","|","n","|","1","|","1","m","|","2","m","|","1","M","i","|","2","M","i","|","|","|","1","\n">>,
    <<"6","|","g","\"","h","|","n","|","1","|","1","m","|","2","m","|","1","M","i","|","2","M","i","|","|","|","1","|","2","|","5","0","|","N","/","A","|","N","/","A","|","t","r","u","e","|","t","r","u","e","\n">>,
    <<"7","|","\"","i","|","n","|","1","|","1","m","|","2","m","|","1","M","i","|","2","M","i","|","|","|","1","|","2","|","5","0","|","N","/","A","|","N","/","A","|","t","r","u","e","|","t","r","u","e","\n">>,
    <<"\n">> }

RECURSIVE SeqsUpTo(_, _)
SeqsUpTo(S, n) ==
  IF n = 0 THEN {<<>>}
  ELSE LET shorter == SeqsUpTo(S, n - 1)
       IN shorter \cup {Append(s, x) : s \in {t \in shorter : Len(t) = n - 1}, x \in S}

HandFiles ==
  {h \o Concat(ls) : h \in HandHeaders, ls \in SeqsUpTo(HandLines, MaxRows)} \cup {<<>>}

NoFile == [exists |-> FALSE, content |-> <<>>]

FileOf(content) == [exists |-> TRUE, content |-> content]

\* Lines the operator may type at the two prompts ("" is end of input).
ConfirmLines ==
  { <<"Y","\n">>, <<" ","y"," ","\n">>, <<"N","\n">>, <<"n","\n">>, <<"y","e","s","\n">>, <<"Y","Y","\n">>, <<"\n">>, <<>> }

MenuLines ==
  { <<"1","\n">>, <<"2","\n">>, <<"3","\n">>, <<"4","\n">>, <<" ","1"," ","\n">>, <<"1","2","\n">>, <<"x","\n">>, <<>> }

\* ------------------------------------------------------------ the program
VARIABLES
  pc,         \* where main is: the statement it executes next
  stdinRead,  \* the lines read from standard input so far
  action,     \* main's local `action`
  started,    \* the menu branches entered, in order
  cluster,    \* the Deployments and HPAs of the active namespace
  file,       \* deployment-info.csv on disk
  data,       \* generateDeploymentInfo's `data`
  writer,     \* writeCSV: the csv.Writer's buffered bytes
  i,          \* writeCSV: records written so far
  fh,         \* patchKubeResourcesFromCSV: "none", "open" or "closed"
  reader,     \* patchKubeResourcesFromCSV: the csv.Reader's offset and FieldsPerRecord
  record,     \* patchKubeResourcesFromCSV: the row being processed
  rowNo,      \* data rows read so far
  calls,      \* everything done to the outside: file opens, API calls, kubectl runs
  ret,        \* what the action function returned: "" while none has returned
  exit        \* the process's exit status, -1 while it runs

vars ==
  <<pc, stdinRead, action, started, cluster, file, data, writer, i, fh, reader,
    record, rowNo, calls, ret, exit>>

Call(cmd, row, ok, args) == [cmd |-> cmd, row |-> row, ok |-> ok, args |-> args]

NoArgs == [none |-> TRUE]

\* A prompt that takes every answer but "N" for a yes.
confirmPromptUnlessNo(line) == TrimSpace(ToUpper(line)) # <<"N">>

\* confirmPrompt's result for the line read
confirmPrompt(line) == TrimSpace(ToUpper(line)) = <<"Y">>

\* actionPrompt's result for the line read
actionPrompt(line) == TrimSpace(line)

\* A switch whose default branch falls into the export.
SwitchActionDefaultExport(a) ==
  IF a = <<"2">> THEN "patch_open"
  ELSE IF a = <<"3">> THEN "restart"
  ELSE IF a = <<"4">> THEN "done"
  ELSE "export"

\* The branch main's switch takes.
SwitchAction(a) ==
  IF a = <<"1">> THEN "export"
  ELSE IF a = <<"2">> THEN "patch_open"
  ELSE IF a = <<"3">> THEN "restart"
  ELSE "done"

InitRun ==
  /\ pc = "confirm"
  /\ stdinRead = <<>>
  /\ action = <<>>
  /\ started = <<>>
  /\ data = <<>>
  /\ writer = <<>>
  /\ i = 0
  /\ fh = "none"
  /\ reader = [off |-> 0, fpr |-> 0]
  /\ record = <<>>
  /\ rowNo = 0
  /\ calls = <<>>
  /\ ret = ""
  /\ exit = -1

\* A run starts with the cluster as it is and with whatever an earlier run
\* and the operator's editor left on disk.
Init ==
  /\ InitRun
  /\ cluster \in Clusters
  /\ \/ file = NoFile
     \/ \E content \in ExportedFiles(cluster) : file = FileOf(content)
     \/ \E content \in HandFiles :
          /\ cluster = Cluster(<<>>, <<>>)
          /\ file = FileOf(content)

\* main, lines 466-469
Confirm ==
  /\ pc = "confirm"
  /\ \E line \in ConfirmLines :
       /\ stdinRead' = Append(stdinRead, line)
       /\ pc' = IF confirmPrompt(line) THEN "menu" ELSE "done"
       /\ exit' = IF confirmPrompt(line) THEN exit ELSE 0
  /\ UNCHANGED <<action, started, cluster, file, data, writer, i, fh, reader,
                 record, rowNo, calls, ret>>

\* main, lines 471-491: the menu is read and the switch entered; "4" and an
\* invalid choice print a message and reach os.Exit(0).
Menu ==
  /\ pc = "menu"
  /\ \E line \in MenuLines :
       LET a == actionPrompt(line)
           branch == SwitchAction(a)
       IN /\ stdinRead' = Append(stdinRead, line)
          /\ action' = a
          /\ pc' = branch
          /\ started' = IF branch = "done" THEN started ELSE Append(started, branch)
          /\ exit' = IF branch = "done" THEN 0 ELSE exit
  /\ UNCHANGED <<cluster, file, data, writer, i, fh, reader, record, rowNo, calls, ret>>

\* getKubeClient, called by generateDeploymentInfo and by restartDeployment:
\* a kubeconfig that cannot be loaded, or lacks the current context, is fatal.
GetKubeClient ==
  /\ pc \in {"export", "restart"}
  /\ \E ok \in BOOLEAN :
       /\ calls' = Append(calls, Call("kubeconfig", 0, ok, NoArgs))
       /\ pc' = IF ~ok THEN "done"
                ELSE IF pc = "export" THEN "list_deployments" ELSE "rollout_restart"
       /\ exit' = IF ok THEN exit ELSE 1
  /\ UNCHANGED <<stdinRead, action, started, cluster, file, data, writer, i, fh,
                 reader, record, rowNo, ret>>

\* getDeploymentInfo, lines 82-85
ListDeployments ==
  /\ pc = "list_deployments"
  /\ \E ok \in BOOLEAN :
       /\ calls' = Append(calls, Call("list-deployments", 0, ok, NoArgs))
       /\ pc' = IF ok THEN "list_hpas" ELSE "done"
       /\ ret' = IF ok THEN ret ELSE "failed to list deployments"
       /\ exit' = IF ok THEN exit ELSE 1
  /\ UNCHANGED <<stdinRead, action, started, cluster, file, data, writer, i, fh,
                 reader, record, rowNo>>

\* getDeploymentInfo, lines 88-167
ListHPAs ==
  /\ pc = "list_hpas"
  /\ \E ok \in BOOLEAN :
       /\ calls' = Append(calls, Call("list-hpas", 0, ok, NoArgs))
       /\ pc' = IF ok THEN "csv_create" ELSE "done"
       /\ data' = IF ok THEN getDeploymentInfo(cluster.deployments, cluster.hpas) ELSE data
       /\ ret' = IF ok THEN ret ELSE "failed to list HPAs"
       /\ exit' = IF ok THEN exit ELSE 1
  /\ UNCHANGED <<stdinRead, action, started, cluster, file, writer, i, fh, reader,
                 record, rowNo>>

\* writeCSV, lines 172-180: os.Create truncates the file.
CsvCreate ==
  /\ pc = "csv_create"
  /\ \E ok \in BOOLEAN :
       /\ calls' = Append(calls, Call("os.Create", 0, ok, NoArgs))
       /\ file' = IF ok THEN FileOf(<<>>) ELSE file
       /\ pc' = IF ok THEN "csv_header" ELSE "done"
       /\ ret' = IF ok THEN ret ELSE "failed to create CSV file"
       /\ exit' = IF ok THEN exit ELSE 1
  /\ writer' = <<>>
  /\ UNCHANGED <<stdinRead, action, started, cluster, data, i, fh, reader, record, rowNo>>

\* writeCSV, lines 183-190. The rows of this model stay below the 4096 bytes
\* bufio buffers, so Write only appends in memory and cannot fail.
CsvHeader ==
  /\ pc = "csv_header"
  /\ writer' = writer \o WriteRecord(HeaderFields)
  /\ i' = 0
  /\ pc' = "csv_rows"
  /\ UNCHANGED <<stdinRead, action, started, cluster, file, data, fh, reader, record,
                 rowNo, calls, ret, exit>>

\* writeCSV, lines 193-235: one iteration of the loop over data
CsvRow ==
  /\ pc = "csv_rows"
  /\ i < Len(data)
  /\ writer' = writer \o WriteRecord(CSVRecord(i + 1, data[i + 1]))
  /\ i' = i + 1
  /\ UNCHANGED <<pc, stdinRead, action, started, cluster, file, data, fh, reader,
                 record, rowNo, calls, ret, exit>>

\* writeCSV, line 236 with the deferred Flush and Close, then
\* generateDeploymentInfo's last line and main's os.Exit(0)
CsvClose ==
  /\ pc = "csv_rows"
  /\ i = Len(data)
  /\ file' = FileOf(file.content \o writer)
  /\ writer' = <<>>
  /\ ret' = "nil"
  /\ pc' = "done"
  /\ exit' = 0
  /\ UNCHANGED <<stdinRead, action, started, cluster, data, i, fh, reader, record,
                 rowNo, calls>>

\* restartDeployment, lines 308-341, and main's case "3": both ends exit 0.
RolloutRestart ==
  /\ pc = "rollout_restart"
  /\ \E ok \in BOOLEAN :
       /\ calls' = Append(calls, Call("rollout-restart", 0, ok, NoArgs))
       /\ ret' = IF ok THEN "nil" ELSE "kubectl rollout restart error"
  /\ pc' = "done"
  /\ exit' = 0
  /\ UNCHANGED <<stdinRead, action, started, cluster, file, data, writer, i, fh,
                 reader, record, rowNo>>

\* A Close that is not deferred: the handle is closed as soon as it was read.
CloseAtOnce(returned) == "closed"

\* `defer file.Close()`, line 349: the handle is closed when the function
\* returns (or panics) and not before.
DeferredClose(returned) == IF returned THEN "closed" ELSE "open"

\* patchKubeResourcesFromCSV, lines 345-352
PatchOpen ==
  /\ pc = "patch_open"
  /\ \E ok \in {b \in BOOLEAN : b => file.exists} :
       /\ calls' = Append(calls, Call("os.Open", 0, ok, NoArgs))
       /\ fh' = IF ok THEN "open" ELSE fh
       /\ pc' = IF ok THEN "patch_header" ELSE "done"
       /\ ret' = IF ok THEN ret ELSE "failed to open CSV file"
       /\ exit' = IF ok THEN exit ELSE 0
  /\ reader' = [off |-> 0, fpr |-> 0]
  /\ UNCHANGED <<stdinRead, action, started, cluster, file, data, writer, i, record, rowNo>>

\* patchKubeResourcesFromCSV, lines 353-356: the header row is read and
\* dropped; an error (an empty file's EOF included) is returned.
PatchHeader ==
  /\ pc = "patch_header"
  /\ LET r == csvRead(file.content, reader.off, reader.fpr)
     IN /\ reader' = [off |-> r.off, fpr |-> r.fpr]
        /\ pc' = IF r.err = "" THEN "patch_read" ELSE "done"
        /\ fh' = DeferredClose(r.err # "")
        /\ ret' = IF r.err = "" THEN ret ELSE "failed to read CSV header"
        /\ exit' = IF r.err = "" THEN exit ELSE 0
  /\ UNCHANGED <<stdinRead, action, started, cluster, file, data, writer, i, record,
                 rowNo, calls>>

\* The flag tests without strings.ToLower.
RowOutcomeCaseSensitive(r) ==
  IF r.err = "EOF" THEN "eof"
  ELSE IF r.err # "" THEN "error"
  ELSE IF Len(r.rec) < 16 THEN "panic"
  ELSE IF r.rec[16] = StrTrue THEN "set_resources"
  ELSE IF Len(r.rec) < 17 THEN "panic"
  ELSE IF r.rec[17] = StrTrue THEN "hpa_patch"
  ELSE "skip"

\* A loop that goes on to the next row when a row cannot be read.
RowOutcomeSkipUnreadable(r) ==
  IF r.err = "EOF" THEN "eof"
  ELSE IF r.err # "" \/ Len(r.rec) < 16 THEN "skip"
  ELSE IF ToLower(r.rec[16]) = StrTrue THEN "set_resources"
  ELSE IF Len(r.rec) < 17 THEN "skip"
  ELSE IF ToLower(r.rec[17]) = StrTrue THEN "hpa_patch"
  ELSE "skip"

\* Lines 359-400 up to the first external command of the row read: what
\* becomes of the loop iteration.  record[1] to record[14] are indexed before
\* the flags, record[15] by the first test, record[16] only when that test
\* fails (Go indexes from 0, the model from 1).
RowOutcome(r) ==
  IF r.err = "EOF" THEN "eof"
  ELSE IF r.err # "" THEN "error"
  ELSE IF Len(r.rec) < 16 THEN "panic"
  ELSE IF ToLower(r.rec[16]) = StrTrue THEN "set_resources"
  ELSE IF Len(r.rec) < 17 THEN "panic"
  ELSE IF ToLower(r.rec[17]) = StrTrue THEN "hpa_patch"
  ELSE "skip"

\* One pass through the head of the for loop, lines 359-400: the next record
\* is read; EOF ends the function with nil, any other error is returned, an
\* index out of range panics (the deferred Close runs, the process exits 2);
\* otherwise the flags decide which command comes first, or none.
PatchRead ==
  /\ pc = "patch_read"
  /\ LET r   == csvRead(file.content, reader.off, reader.fpr)
         out == RowOutcome(r)
         end == out \in {"eof", "error", "panic"}
     IN /\ reader' = [off |-> r.off, fpr |-> r.fpr]
        /\ record' = IF out \in {"eof", "error"} THEN record ELSE r.rec
        /\ rowNo' = IF out \in {"eof", "error"} THEN rowNo ELSE rowNo + 1
        /\ pc' = IF end THEN "done" ELSE IF out = "skip" THEN "patch_read" ELSE out
        /\ fh' = DeferredClose(end)
        /\ ret' = IF out = "eof" THEN "nil"
                  ELSE IF out = "error" THEN "error reading CSV"
                  ELSE IF out = "panic" THEN "panic: index out of range"
                  ELSE ret
        /\ exit' = IF out = "panic" THEN 2 ELSE IF end THEN 0 ELSE exit
  /\ UNCHANGED <<stdinRead, action, started, cluster, file, data, writer, i, calls>>

\* The arguments the loop body passes to setDeploymentResources, lines 367-374
ResourceArgs(rec) ==
  [namespace |-> rec[3], deploymentName |-> rec[2], cpuReq |-> rec[5],
   memReq |-> rec[7], memLim |-> rec[8]]

RollingArgs(rec) ==
  [namespace |-> rec[3], deploymentName |-> rec[2],
   maxUnavailable |-> rec[9], maxSurge |-> rec[10]]

\* The arguments the loop body passes to patchHPA, lines 375-379, which puts
\* every one of them into the merge patch, line 447
HPAArgs(rec) ==
  [hpaName |-> rec[2], namespace |-> rec[3],
   minReplicas |-> Atoi(rec[11]), maxReplicas |-> Atoi(rec[12]),
   cpuTargetUtilization |-> Atoi(rec[13]),
   scaleUpStabilization |-> Atoi(rec[14]),
   scaleDownStabilization |-> Atoi(rec[15])]

\* A caller that gives the row up when setDeploymentResources fails.
AfterSetResourcesGiveUp(ok) == IF ok THEN "rolling_patch" ELSE "patch_read"

\* Where setDeploymentResources goes after kubectl set resources: on to the
\* rolling-update patch, or back to the caller with the error.
AfterSetResources(ok) == IF ok THEN "rolling_patch" ELSE "hpa_patch"

\* setDeploymentResources, lines 410-422: kubectl set resources
SetResources ==
  /\ pc = "set_resources"
  /\ \E ok \in BOOLEAN :
       /\ calls' = Append(calls, Call("set-resources", rowNo, ok, ResourceArgs(record)))
       /\ pc' = AfterSetResources(ok)
  /\ UNCHANGED <<stdinRead, action, started, cluster, file, data, writer, i, fh,
                 reader, record, rowNo, ret, exit>>

\* setDeploymentResources, lines 426-441: kubectl patch deployment; the
\* caller prints an error and goes on to patchHPA, lines 385-390.
RollingPatch ==
  /\ pc = "rolling_patch"
  /\ \E ok \in BOOLEAN :
       calls' = Append(calls, Call("patch-deployment", rowNo, ok, RollingArgs(record)))
  /\ pc' = "hpa_patch"
  /\ UNCHANGED <<stdinRead, action, started, cluster, file, data, writer, i, fh,
                 reader, record, rowNo, ret, exit>>

\* A loop that stops at the first failed HPA patch.
AfterPatchHPAStop(ok) == IF ok THEN "patch_read" ELSE "done"

\* Where the loop goes after patchHPA returned, with or without an error
AfterPatchHPA(ok) == "patch_read"

\* patchHPA, lines 445-463: kubectl patch hpa; the caller prints an error
\* and the loop goes on, lines 391-402.
PatchHPA ==
  /\ pc = "hpa_patch"
  /\ \E ok \in BOOLEAN :
       /\ calls' = Append(calls, Call("patch-hpa", rowNo, ok, HPAArgs(record)))
       /\ pc' = AfterPatchHPA(ok)
  /\ UNCHANGED <<stdinRead, action, started, cluster, file, data, writer, i, fh,
                 reader, record, rowNo, ret, exit>>

Next ==
  \/ Confirm
  \/ Menu
  \/ GetKubeClient
  \/ ListDeployments
  \/ ListHPAs
  \/ CsvCreate
  \/ CsvHeader
  \/ CsvRow
  \/ CsvClose
  \/ RolloutRestart
  \/ PatchOpen
  \/ PatchHeader
  \/ PatchRead
  \/ SetResources
  \/ RollingPatch
  \/ PatchHPA

Spec == Init /\ [][Next]_vars

\* ------------------------------------------- the collection on its own
\* HPA lists for getDeploymentInfo: every list of at most MaxHPAs of these.
HpaChoices == {HpaApi, HpaApiWindows, HpaWeb, HpaApiStatefulSet}

DeploymentLists == {<<DeployApi, DeployWeb, DeployJob>>, <<DeployWeb, DeployApi>>}

\* generateDeploymentInfo about to call getDeploymentInfo, in a namespace
\* with any of the bounded HPA lists.
InitCollect ==
  /\ pc = "list_deployments"
  /\ stdinRead = << <<"Y","\n">>, <<"1","\n">> >>
  /\ action = <<"1">>
  /\ started = <<"export">>
  /\ \E ds \in DeploymentLists, hs \in SeqsUpTo(HpaChoices, MaxHPAs) :
       cluster = Cluster(ds, hs)
  /\ file = NoFile
  /\ data = <<>>
  /\ writer = <<>>
  /\ i = 0
  /\ fh = "none"
  /\ reader = [off |-> 0, fpr |-> 0]
  /\ record = <<>>
  /\ rowNo = 0
  /\ calls = <<Call("kubeconfig", 0, TRUE, NoArgs)>>
  /\ ret = ""
  /\ exit = -1

NextCollect == ListDeployments \/ ListHPAs

SpecCollect == InitCollect /\ [][NextCollect]_vars

\* ------------------------------------------------ the codec on its own
\* Records for writeCSV: what getDeploymentInfo makes of the Deployments
\* above with no HPA, and with each HPA that targets them.
CodecRecords ==
  { DeploymentInfo(DeployApi, <<>>),
    DeploymentInfo(DeployApi, <<HpaApi>>),
    DeploymentInfo(DeployApi, <<HpaApiWindows>>),
    DeploymentInfo(DeployWeb, <<>>),
    DeploymentInfo(DeployWeb, <<HpaWeb>>),
    DeploymentInfo(DeployJob, <<>>) }

\* generateDeploymentInfo about to call writeCSV with any list of at most
\* MaxRecords of these records, the file absent or left by an earlier run.
InitCodec ==
  /\ pc = "csv_create"
  /\ stdinRead = << <<"Y","\n">>, <<"1","\n">> >>
  /\ action = <<"1">>
  /\ started = <<"export">>
  /\ cluster = Cluster(<<>>, <<>>)
  /\ file \in {NoFile, FileOf(WriteRecord(HeaderFields) \o <<"s","t","a","l","e","\n">>)}
  /\ data \in SeqsUpTo(CodecRecords, MaxRecords)
  /\ writer = <<>>
  /\ i = 0
  /\ fh = "none"
  /\ reader = [off |-> 0, fpr |-> 0]
  /\ record = <<>>
  /\ rowNo = 0
  /\ calls = <<Call("kubeconfig", 0, TRUE, NoArgs),
               Call("list-deployments", 0, TRUE, NoArgs),
               Call("list-hpas", 0, TRUE, NoArgs)>>
  /\ ret = ""
  /\ exit = -1

NextCodec == CsvCreate \/ CsvHeader \/ CsvRow \/ CsvClose

SpecCodec == InitCodec /\ [][NextCodec]_vars

\* ================================================================ claims
PatchCmds == {"set-resources", "patch-deployment", "patch-hpa"}

\* The calls made for data row k, in the order made.
CallsOfRow(k) == SelectSeq(calls, LAMBDA c : c.cmd \in PatchCmds /\ c.row = k)

Cmds(cs) == [j \in 1..Len(cs) |-> cs[j].cmd]

Count(cs, cmd) == Cardinality({j \in 1..Len(cs) : cs[j].cmd = cmd})

\* A patch run has read row rowNo and finished with it: it is back at the
\* head of the loop, or it has returned at a later read.
RowFinished ==
  /\ started = <<"patch_open">>
  /\ rowNo >= 1
  /\ pc \in {"patch_read", "done"}
  /\ ret # "panic: index out of range"

C5_RoundTrip ==
  (pc = "done" /\ ret = "nil" /\ started = <<"export">>) =>
    LET rb == ReadBack(file.content)
        win(w) == IF w = None THEN <<"N","/","A">> ELSE Itoa(w[1])
    IN /\ rb.err = ""
       /\ Len(rb.rows) = Len(data)
       /\ \A k \in 1..Len(data) :
            LET row == rb.rows[k]
                d   == data[k]
            IN /\ Len(row) = 17
               /\ row[1] = Itoa(k)
               /\ row[2] = d.Name
               /\ row[3] = d.Namespace
               /\ row[4] = Itoa(d.Replicas)
               /\ row[5] = d.CPURequest
               /\ row[6] = d.CPULimit
               /\ row[7] = d.MemoryRequest
               /\ row[8] = d.MemoryLimit
               /\ row[9] = d.MaxUnavailable
               /\ row[10] = d.MaxSurge
               /\ row[11] = Itoa(d.MinReplicas)
               /\ row[12] = Itoa(d.MaxReplicas)
               /\ row[13] = Itoa(d.CPUTargetUtilization)
               /\ row[14] = win(d.ScaleUpStabilization)
               /\ row[15] = win(d.ScaleDownStabilization)
               /\ row[16] = <<"f","a","l","s","e">>
               /\ row[17] = <<"f","a","l","s","e">>

\* An export of two records has finished, one of them with no scale-up
\* window and one with both windows, over a file an earlier run left.
C5_Witness ==
  /\ pc = "done"
  /\ ret = "nil"
  /\ Len(data) = 2
  /\ data[1].ScaleUpStabilization = None
  /\ data[2].ScaleUpStabilization # None
  /\ data[2].ScaleDownStabilization # None
  /\ Len(ReadBack(file.content).rows) = 2

\* The HPAs of the list that target Deployment d.
Targeting(d) ==
  {j \in 1..Len(cluster.hpas) :
     /\ cluster.hpas[j].targetName = d.name
     /\ cluster.hpas[j].targetKind = "Deployment"}

\* A Resource metric on cpu that states an averageUtilization.
IsCpuUtilization(m) ==
  /\ m.type = "Resource"
  /\ m.resource # None
  /\ m.resource[1].name = "cpu"
  /\ m.resource[1].averageUtilization # None

\* C7: in getDeploymentInfo the autoscaling fields of a record come from the
\* first HPA in list order that targets the Deployment by name with kind
\* "Deployment", and from no later one: MinReplicas is its minReplicas, or 1
\* when that is null, MaxReplicas its maxReplicas; with no such HPA,
\* MinReplicas, MaxReplicas and CPUTargetUtilization are 0 and both
\* stabilization windows are absent.
C7_FirstMatchingHPA ==
  (pc = "csv_create") =>
    /\ Len(data) = Len(cluster.deployments)
    /\ \A k \in 1..Len(data) :
         LET d == cluster.deployments[k]
             m == Targeting(d)
         IN IF m = {}
              THEN /\ data[k].MinReplicas = 0
                   /\ data[k].MaxReplicas = 0
                   /\ data[k].CPUTargetUtilization = 0
                   /\ data[k].ScaleUpStabilization = None
                   /\ data[k].ScaleDownStabilization = None
            ELSE LET first == cluster.hpas[CHOOSE j \in m : \A j2 \in m : j <= j2]
                     b == first.behavior
                 IN /\ data[k].MinReplicas =
                         (IF first.minReplicas = None THEN 1 ELSE first.minReplicas[1])
                    /\ data[k].MaxReplicas = first.maxReplicas
                    /\ data[k].ScaleUpStabilization =
                         (IF b = None \/ b[1].scaleUp = None THEN None
                          ELSE b[1].scaleUp[1].stabilizationWindowSeconds)
                    /\ data[k].ScaleDownStabilization =
                         (IF b = None \/ b[1].scaleDown = None THEN None
                          ELSE b[1].scaleDown[1].stabilizationWindowSeconds)
                    /\ IF \E j \in 1..Len(first.metrics) : IsCpuUtilization(first.metrics[j])
                         THEN \E j \in 1..Len(first.metrics) :
                                first.metrics[j] = CpuMetric(Some(data[k].CPUTargetUtilization))
                         ELSE data[k].CPUTargetUtilization = 0

\* The collection has run on a list in which two HPAs with different bounds
\* target one Deployment, the first of them with minReplicas null, while
\* another Deployment has no HPA.
C7_Witness ==
  /\ pc = "csv_create"
  /\ \E k \in 1..Len(data) :
       /\ Cardinality(Targeting(cluster.deployments[k])) = 2
       /\ cluster.hpas[1].minReplicas = None
       /\ cluster.hpas[1].maxReplicas # cluster.hpas[2].maxReplicas
       /\ data[k].MinReplicas = 1
  /\ \E k \in 1..Len(data) :
       /\ Targeting(cluster.deployments[k]) = {}
       /\ data[k].MaxReplicas = 0

\* The file parses to the end and every data row has the 17 columns.
WellFormedFile ==
  LET rb == ReadBack(file.content)
  IN rb.err = "" /\ \A k \in 1..Len(rb.rows) : Len(rb.rows[k]) = 17

Opened == \E j \in 1..Len(calls) : calls[j].cmd = "os.Open" /\ calls[j].ok

\* C2: in the patch flow over well-formed rows, whatever the outcomes of the
\* external commands, a failed resource-set or HPA-patch for one row does not
\* keep the commands the flags of the later rows require from being issued,
\* in file order, and patchKubeResourcesFromCSV returns nil: exit status 0.
C2_FailuresDoNotStopTheLoop ==
  (pc = "done" /\ started = <<"patch_open">> /\ Opened /\ WellFormedFile) =>
    LET rows == ReadBack(file.content).rows
    IN /\ ret = "nil"
       /\ exit = 0
       /\ \A k \in 1..Len(rows) :
            LET cs == CallsOfRow(k)
            IN IF ToLower(rows[k][16]) = StrTrue
                 THEN Count(cs, "set-resources") = 1 /\ Count(cs, "patch-hpa") = 1
               ELSE IF ToLower(rows[k][17]) = StrTrue
                 THEN Count(cs, "patch-hpa") = 1
               ELSE TRUE
       /\ \A a, b \in 1..Len(calls) :
            (a < b /\ calls[a].cmd \in PatchCmds /\ calls[b].cmd \in PatchCmds)
              => calls[a].row <= calls[b].row

\* A patch run has ended with nil and exit status 0 although both the
\* resource-set and the HPA patch of row 1 failed, and row 2 got its commands.
C2_Witness ==
  /\ pc = "done"
  /\ started = <<"patch_open">>
  /\ ret = "nil"
  /\ exit = 0
  /\ WellFormedFile
  /\ Len(CallsOfRow(1)) = 2
  /\ \A j \in 1..2 : ~CallsOfRow(1)[j].ok
  /\ Count(CallsOfRow(2), "patch-hpa") = 1

\* C3: a confirmation line that is not "Y" after trimming white space and
\* upper-casing ends the run before the menu: nothing more is read, no
\* action starts, no cluster list call is made, deployment-info.csv is
\* neither created nor opened, and no kubectl command runs.
C3_NoConfirmNoEffect ==
  (Len(stdinRead) >= 1 /\ TrimSpace(ToUpper(stdinRead[1])) # <<"Y">>) =>
    /\ pc = "done"
    /\ exit = 0
    /\ Len(stdinRead) = 1
    /\ started = <<>>
    /\ calls = <<>>
    /\ fh = "none"
    /\ writer = <<>>

\* The run has ended on the answer "yes", which is not "Y".
C3_Witness ==
  /\ pc = "done"
  /\ stdinRead = << <<"y","e","s","\n">> >>
  /\ calls = <<>>

\* The branch the menu line stands for when it is compared as typed, without
\* its line end.
Chomp(line) ==
  IF Len(line) > 0 /\ line[Len(line)] = NL THEN SubSeq(line, 1, Len(line) - 1) ELSE line

BranchOf(choice) ==
  IF choice = <<"1">> THEN <<"export">>
  ELSE IF choice = <<"2">> THEN <<"patch_open">>
  ELSE IF choice = <<"3">> THEN <<"restart">>
  ELSE <<>>

SingleShot ==
  /\ Len(stdinRead) <= 2
  /\ Len(started) <= 1
  /\ started # <<>> => Len(stdinRead) = 2
  /\ pc \in {"confirm", "menu"} => started = <<>>
  /\ pc = "done" <=> exit # -1

\* C4 as stated: the shell is single-shot (the menu is read at most once, at
\* most one action starts, at most once) and the menu input starts export for
\* "1", patch for "2", restart for "3", nothing for "4" or any other input.
C4_LiteralDispatch ==
  /\ SingleShot
  /\ Len(stdinRead) = 2 => started = BranchOf(Chomp(stdinRead[2]))

\* C4 amended: the same, the menu input being compared after its surrounding
\* white space is trimmed.
C4_TrimmedDispatch ==
  /\ SingleShot
  /\ Len(stdinRead) = 2 => started = BranchOf(TrimSpace(stdinRead[2]))

\* The menu line " 1 " has started the export.
C4_Witness ==
  /\ Len(stdinRead) = 2
  /\ stdinRead[2] = <<" ","1"," ","\n">>
  /\ started = <<"export">>
  /\ pc = "done"

AtCommand == pc \in {"set_resources", "rolling_patch", "hpa_patch"}

NextRow == csvRead(file.content, reader.off, reader.fpr)

\* C6 as stated: the input file is read to its end and closed before the
\* first external patch command is invoked.
C6_ReadAndClosedFirst ==
  AtCommand => (fh = "closed" /\ NextRow.err = "EOF")

\* C6 amended: the input file is opened before the first external patch
\* command and stays open while the commands run; the commands of a row are
\* invoked after that row is read and before the next one is read; the file
\* is closed only when patchKubeResourcesFromCSV returns.
C6_OpenWhileCommandsRun ==
  /\ AtCommand => (fh = "open" /\ Opened /\ rowNo >= 1)
  /\ fh = "closed" => pc = "done"
  /\ \A j \in 1..Len(calls) :
       calls[j].cmd \in PatchCmds =>
         /\ 1 <= calls[j].row
         /\ calls[j].row <= rowNo
         /\ \A l \in 1..(j - 1) : calls[l].cmd \in PatchCmds => calls[l].row <= calls[j].row

\* The HPA patch of row 1 is about to run with the file open and a further
\* row still unread.
C6_Witness ==
  /\ pc = "hpa_patch"
  /\ fh = "open"
  /\ rowNo = 1
  /\ NextRow.err = ""

\* C8: for a row flagged UpdateResourceAndHPA the calls are set-resources,
\* then the rolling-update merge patch if and only if set-resources
\* succeeded, then the HPA merge patch, which runs exactly once whatever the
\* outcome of the two before it.
C8_ResourceLegThenHPA ==
  (RowFinished /\ ToLower(record[16]) = StrTrue) =>
    LET cs == CallsOfRow(rowNo)
    IN /\ Cmds(cs) \in {<<"set-resources", "patch-hpa">>,
                        <<"set-resources", "patch-deployment", "patch-hpa">>}
       /\ Len(cs) = 3 <=> cs[1].ok

\* A flagged row is done: set-resources succeeded, the rolling-update patch
\* failed, the HPA patch ran.
C8_Witness ==
  /\ RowFinished
  /\ ToLower(record[16]) = StrTrue
  /\ LET cs == CallsOfRow(rowNo)
     IN /\ Len(cs) = 3
        /\ cs[1].ok
        /\ ~cs[2].ok
        /\ cs[3].cmd = "patch-hpa"

Failed == ret \in {"error reading CSV", "panic: index out of range"}

\* C9 as stated: a data row that is short (fewer than the 17 columns) or
\* malformed ends the operation with an error at that row, no command being
\* invoked for it or for a later row.
C9_ShortRowFails ==
  [][(pc = "patch_read" /\ (NextRow.err \notin {"", "EOF"} \/
                              (NextRow.err = "" /\ Len(NextRow.rec) < 17)))
       => (pc' = "done" /\ Failed' /\ calls' = calls)]_vars

\* C9 amended: a data row the reader rejects (a quoting error, a field count
\* other than the header row's) or that lacks a field the loop indexes (fewer
\* than 16 fields, or 16 fields with field 15 not "true") ends the operation
\* with an error at that row: no command is invoked for it or for a later
\* row, and the calls made for the rows before it stand.
C9_UnreadableRowFails ==
  [][(pc = "patch_read" /\ (NextRow.err \notin {"", "EOF"} \/
                              (NextRow.err = "" /\
                                 (Len(NextRow.rec) < 16 \/
                                    (Len(NextRow.rec) = 16 /\
                                       ToLower(NextRow.rec[16]) # StrTrue)))))
       => (pc' = "done" /\ Failed' /\ calls' = calls /\ fh' = "closed")]_vars

\* The run has failed at row 2 after the commands of row 1 were invoked.
C9_Witness ==
  /\ pc = "done"
  /\ Failed
  /\ Len(CallsOfRow(1)) >= 2
  /\ \A j \in 1..Len(calls) : calls[j].row <= 1

\* C10: after an export and an edit of the flag columns only, the
\* minReplicas, maxReplicas, CPU target and stabilization windows patchHPA
\* sends equal what was collected for the Deployment; a window that was
\* absent is not sent as a number of seconds.
C10_FlagOnlyEditPreservesHPA ==
  \A j \in 1..Len(calls) :
    (calls[j].cmd = "patch-hpa" /\ file.content \in ExportedFiles(cluster)) =>
      LET d == getDeploymentInfo(cluster.deployments, cluster.hpas)[calls[j].row]
          a == calls[j].args
      IN /\ a.minReplicas = d.MinReplicas
         /\ a.maxReplicas = d.MaxReplicas
         /\ a.cpuTargetUtilization = d.CPUTargetUtilization
         /\ Some(a.scaleUpStabilization) = d.ScaleUpStabilization
         /\ Some(a.scaleDownStabilization) = d.ScaleDownStabilization

====
